---- MODULE Spec2Model ----
(***************************************************************************)
(* The interactive controller of clica/interface/states.py: the states of  *)
(* the terminal state machine (Menu, Example, AgentTurn, Train, ...), the  *)
(* session context they share, the text buffer and action queue of the     *)
(* editing state, and the checkpoint tracker of TrainState.train_agent.    *)
(***************************************************************************)
EXTENDS Integers, Sequences, FiniteSets, TLC

\* ------------------------------------------------------------------ bounds

\* Most entries the action log holds before input that would add more is
\* no longer drawn.
MaxLog == 4

\* The pending reward is explored within -MaxReward .. MaxReward.
MaxReward == 2

\* The configured max_gen_length is drawn from 0 .. MaxGen.
MaxGen == 3

\* The trainings of one run.
MaxTrain == 4

\* ------------------------------------------------------------------ state

VARIABLES
    state,                  \* the controller's current CLIState ("NONE" once Exit returned None)
    prev,                   \* the state whose handle_execution returned last
    pc,                     \* position inside the running handler: "entry" or "loop"
    curr_reward,            \* cli.curr_reward
    env,                    \* cli.env: handle of the live workspace
    last_trained_env,       \* cli.last_trained_env: handle of the replay baseline
    last_trained_env_state, \* cli.last_trained_env_state (0 while never assigned)
    last_trained_step,      \* cli.last_trained_step
    ws,                     \* heap of workspaces: handle -> ids of the entries applied to it
    log,                    \* cli.db: the persistent action log
    insert_queue,           \* cli.insert_queue
    queued_actions,         \* ExampleState.handle_execution's queued_actions
    render_queued,          \* ExampleState.handle_execution's render_queued
    act_idx,                \* AgentTurnState.handle_execution's act_idx
    max_gen_length,         \* cli.agent.max_gen_length
    applied,                \* history: the (action, source) pairs the running handler enacted
    typed,                  \* history: the characters read as plain text in this editing activation
    plain,                  \* history: only plain-text keys were read in this editing activation
    pending,                \* history: the last command-key flush of the editing state
    trained,                \* history: ids of the entries passed to agent.train_on_actions
    train_calls,            \* history: number of calls of agent.train_on_actions
    replayed,               \* history: handle returned by the last agent.train_on_actions
    log_at_train,           \* history: length of the log when the last Train handler returned
    found,                  \* history: the last Train handler found entries to train on
    key_read,               \* history: the key the last Menu handler read
    instruction,            \* the workspace's instruction is not blank
    loaded_model_name,      \* cli.loaded_model_name ("" while None)
    model_save_dir,         \* cli.model_save_dir is configured
    eval_data_path,         \* cli.eval_data_path: "" (not set), "missing" or "dir"
    saved,                  \* the model directories under cli.model_save_dir
    generated,              \* history: the actions this editing activation produced, in order
    ex_key,                 \* history: the key the last iteration of the editing loop read
    save_name,              \* history: what get_text_input returned to the last SaveModel handler
    save_raised,            \* history: agent.save raised in the last SaveModel handler
    selection,              \* history: what select_from_list returned to the last LoadModel handler
    load_fails,             \* history: the positions of that selection whose agent.load raised
    attempted,              \* history: the names the last LoadModel handler passed to agent.load
    results,                \* history: the items the last Eval handler ran, with their outcome
    train_actions,          \* TrainState.train_agent's actions, while training runs
    late_id                 \* history: id of the last entry appended while training ran (0: none)

vars == <<state, prev, pc, curr_reward, env, last_trained_env, last_trained_env_state,
          last_trained_step, ws, log, insert_queue, queued_actions, render_queued,
          act_idx, max_gen_length, applied, typed, plain, pending, trained,
          train_calls, replayed, log_at_train, found, key_read, instruction, loaded_model_name,
          model_save_dir, eval_data_path, saved, generated, ex_key, save_name,
          save_raised, selection, load_fails, attempted, results, train_actions, late_id>>

sessVars == <<instruction, loaded_model_name, model_save_dir, eval_data_path, saved>>

ctxVars == <<curr_reward, env, last_trained_env, last_trained_env_state,
             last_trained_step, ws, log, sessVars>>

exampleVars == <<insert_queue, queued_actions, render_queued, typed, plain, pending,
                 generated, ex_key>>

trainHist == <<trained, train_calls, replayed, log_at_train, found, key_read>>

modelHist == <<save_name, save_raised, selection, load_fails, attempted, results>>

raceVars == <<train_actions, late_id>>

\* ------------------------------------------------------------------ inputs

\* Keys the editing state receives from cli._query_and_parse_user_key.
TextKeys == {"a", "b"}

CommandKeys == {"KEY_ENTER", "^r"}

KEY_CTRL_RIGHT_TOKEN == "^KEY_RIGHT"

KEY_ENTER_TOKEN == "KEY_ENTER"

ESC == "ESC"

KEY_RESIZE == "KEY_RESIZE"

\* COMMAND_TOKENS of clica.interface.inputs, as far as the keys drawn here go.
COMMAND_TOKENS == CommandKeys \cup {KEY_CTRL_RIGHT_TOKEN}

HUMAN == "HUMAN"

AI == "AI"

\* Line 95 with the agent's tag on the human's queued actions.
PopSourceAgent == AI

\* Line 95: the source ExampleState gives an action popped from the queue.
PopSource == HUMAN

\* Line 113: the source ExampleState gives the text flushed by escape.
EscapeSource == HUMAN

\* Line 139: the source ExampleState gives a command applied at once.
CommandSource == HUMAN

\* Line 260: the source AgentTurnState gives the agent's action.
TurnSource == AI

\* ------------------------------------------------------------------ codec

\* tokenizer.convert_tokens_to_ids: the action id of a symbolic command.
ConvertTokensToIds(key) == [kind |-> "cmd", text |-> <<key>>]

\* The vocabulary's text tokens: single characters and the merged pair "ab".
TextToken(chars) == [kind |-> "txt", text |-> chars]

\* tokenizer.encode(text, add_special_tokens=False): greedy longest match, so
\* the tokens of a text depend on where it is cut.
RECURSIVE Encode(_)
Encode(s) ==
    IF s = <<>> THEN <<>>
    ELSE IF Len(s) >= 2 /\ s[1] = "a" /\ s[2] = "b"
         THEN <<TextToken(<<"a", "b">>)>> \o Encode(SubSeq(s, 3, Len(s)))
         ELSE <<TextToken(<<s[1]>>)>> \o Encode(Tail(s))

\* The characters a sequence of action ids stands for (commands stand for none).
RECURSIVE Decode(_)
Decode(acts) ==
    IF acts = <<>> THEN <<>>
    ELSE (IF Head(acts).kind = "txt" THEN Head(acts).text ELSE <<>>) \o Decode(Tail(acts))

\* ------------------------------------------------------------------ helpers

Last(s) == s[Len(s)]

Room(n) == Len(log) + n <= MaxLog

Handles == 1 .. 5

Referenced(e, s, t) == {e, s, t} \ {0}

\* A handle no reference holds: what a constructor or copy.deepcopy returns.
Fresh(used) == CHOOSE h \in Handles \ used : \A g \in Handles \ used : h <= g

\* The heap with the unreferenced workspaces collected.
Collect(heap, used) == [h \in Handles |-> IF h \in used THEN heap[h] ELSE <<>>]

\* Sequence ids the log issues: one more than the last one issued.
NextId(lg) == IF lg = <<>> THEN 1 ELSE Last(lg).id + 1

RECURSIVE LogAppendAll(_, _, _)
LogAppendAll(lg, acts, source) ==
    IF acts = <<>> THEN lg
    ELSE LogAppendAll(Append(lg, [id |-> NextId(lg), action |-> Head(acts), source |-> source]),
                      Tail(acts), source)

Ids(entries) == [i \in 1 .. Len(entries) |-> entries[i].id]

Tagged(acts, source) == [i \in 1 .. Len(acts) |-> [action |-> acts[i], source |-> source]]

Actions(pairs) == [i \in 1 .. Len(pairs) |-> pairs[i].action]

\* cli._env_enact(action, source) for each action of acts in turn: the live
\* workspace applies it and the log records it.
EnvEnactAll(acts, source) ==
    LET lg == LogAppendAll(log, acts, source)
    IN  /\ log' = lg
        /\ ws' = [ws EXCEPT ![env] = @ \o Ids(SubSeq(lg, Len(log) + 1, Len(lg)))]
        /\ applied' = applied \o Tagged(acts, source)
        /\ UNCHANGED <<env, last_trained_env, last_trained_env_state, last_trained_step,
                       curr_reward, sessVars>>

\* No command-key flush is on record.
NoPending == [set |-> FALSE, text |-> <<>>, key |-> "", base |-> 0]

\* ------------------------------------------------------------------ Init

Init ==
    /\ state = "MENU"
    /\ prev = "NONE"
    /\ pc = "entry"
    /\ curr_reward = 0
    /\ env = 1
    /\ last_trained_env = 2
    /\ last_trained_env_state = 0
    /\ last_trained_step = 0
    /\ ws = [h \in Handles |-> <<>>]
    /\ log = <<>>
    /\ insert_queue = <<>>
    /\ queued_actions = <<>>
    /\ render_queued = FALSE
    /\ act_idx = 0
    /\ max_gen_length \in 0 .. MaxGen
    /\ applied = <<>>
    /\ typed = <<>>
    /\ plain = TRUE
    /\ pending = NoPending
    /\ trained = <<>>
    /\ train_calls = 0
    /\ replayed = 0
    /\ log_at_train = 0
    /\ found = FALSE
    /\ key_read = ""
    /\ instruction = FALSE
    /\ loaded_model_name = ""
    /\ model_save_dir \in BOOLEAN
    /\ eval_data_path \in {"", "missing", "empty", "dir"}
    /\ saved = {}
    /\ generated = <<>>
    /\ ex_key = ""
    /\ save_name = "None"
    /\ save_raised = FALSE
    /\ selection = <<>>
    /\ load_fails = {}
    /\ attempted = <<>>
    /\ results = <<>>
    /\ train_actions = <<>>
    /\ late_id = 0

\* ------------------------------------------------------------------ ExampleState

\* Lines 84-87: the handler's set-up.
ExampleEnter ==
    /\ state = "EXAMPLE" /\ pc = "entry"
    /\ insert_queue' = <<>>
    /\ queued_actions' = <<>>
    /\ render_queued' = FALSE
    /\ pc' = "loop"
    /\ applied' = <<>>
    /\ typed' = <<>>
    /\ plain' = TRUE
    /\ pending' = NoPending
    /\ generated' = <<>>
    /\ ex_key' = ""
    /\ UNCHANGED <<state, prev, ctxVars, act_idx, max_gen_length, trainHist, modelHist, raceVars>>

\* Lines 93-97: one loop iteration with a non-empty queue.
ExamplePop ==
    /\ state = "EXAMPLE" /\ pc = "loop"
    /\ Len(queued_actions) > 0
    /\ queued_actions' = Tail(queued_actions)
    /\ EnvEnactAll(<<Head(queued_actions)>>, PopSource)
    /\ render_queued' = TRUE
    /\ ex_key' = ""
    /\ UNCHANGED <<state, prev, pc, insert_queue, typed, plain, pending, generated, act_idx,
                   max_gen_length, trainHist, modelHist, raceVars>>

\* Lines 108-113: what escape leaves in the queue and what it enacts at once.
EscapeQueued(queue, buffer) ==
    IF Len(buffer) > 0 THEN Append(queue, ConvertTokensToIds(KEY_ENTER_TOKEN)) ELSE queue

EscapeEnacted(buffer) ==
    IF Len(buffer) > 0 THEN Encode(buffer) ELSE <<>>

\* Lines 106-114: escape.
ExampleEscape ==
    /\ state = "EXAMPLE" /\ pc = "loop"
    /\ Len(queued_actions) = 0
    /\ queued_actions' = EscapeQueued(queued_actions, insert_queue)
    /\ insert_queue' = <<>>
    /\ EnvEnactAll(EscapeEnacted(insert_queue), EscapeSource)
    /\ render_queued' = FALSE
    /\ state' = "MENU"
    /\ prev' = "EXAMPLE"
    /\ pc' = "entry"
    /\ generated' = generated \o EscapeEnacted(insert_queue)
                               \o EscapeQueued(queued_actions, insert_queue)
    /\ ex_key' = ESC
    /\ UNCHANGED <<typed, plain, pending, act_idx, max_gen_length, trainHist, modelHist, raceVars>>

\* Lines 115-116: a resize event.
ExampleResize ==
    /\ state = "EXAMPLE" /\ pc = "loop"
    /\ Len(queued_actions) = 0
    /\ render_queued' = FALSE
    /\ plain' = FALSE
    /\ pending' = NoPending
    /\ ex_key' = KEY_RESIZE
    /\ UNCHANGED <<state, prev, pc, ctxVars, insert_queue, queued_actions, typed, generated,
                   act_idx, max_gen_length, applied, trainHist, modelHist, raceVars>>

\* Lines 120-121 without line 121: the text is queued without its commit.
InsertQueuedNoCommit(queue, buffer) == queue \o Encode(buffer)

\* Lines 120-121: the queue after the insert-text key.
InsertQueued(queue, buffer) ==
    Append(queue \o Encode(buffer), ConvertTokensToIds(KEY_ENTER_TOKEN))

\* Lines 119-122: the ctrl+right key.
ExampleCtrlRight ==
    /\ state = "EXAMPLE" /\ pc = "loop"
    /\ Len(queued_actions) = 0
    /\ Room(Len(Encode(insert_queue)) + 1)
    /\ queued_actions' = InsertQueued(queued_actions, insert_queue)
    /\ insert_queue' = <<>>
    /\ render_queued' = FALSE
    /\ plain' = FALSE
    /\ pending' = NoPending
    /\ generated' = generated \o InsertQueued(queued_actions, insert_queue)
    /\ ex_key' = KEY_CTRL_RIGHT_TOKEN
    /\ UNCHANGED <<state, prev, pc, ctxVars, typed, act_idx, max_gen_length, applied,
                   trainHist, modelHist, raceVars>>

\* Line 126 with = for +=: the key replaces the buffer.
TextAssigned(buffer, key) == <<key>>

\* Line 126: the buffer after a plain-text key.
TextAppended(buffer, key) == Append(buffer, key)

\* Lines 125-126: a plain-text key.
ExampleText(key) ==
    /\ state = "EXAMPLE" /\ pc = "loop"
    /\ Len(queued_actions) = 0
    /\ key \notin COMMAND_TOKENS
    /\ Room(Len(insert_queue) + 1)
    /\ insert_queue' = TextAppended(insert_queue, key)
    /\ typed' = Append(typed, key)
    /\ render_queued' = FALSE
    /\ pending' = NoPending
    /\ ex_key' = key
    /\ UNCHANGED <<state, prev, pc, ctxVars, queued_actions, plain, generated, act_idx,
                   max_gen_length, applied, trainHist, modelHist, raceVars>>

\* Lines 131-133 with the command queued ahead of the text it follows.
CommandQueuedFirst(queue, buffer, key) ==
    Append(Append(queue, ConvertTokensToIds(key)) \o Encode(buffer),
           ConvertTokensToIds(KEY_ENTER_TOKEN))

\* Lines 131-133: the queue after a command key that finds text in the buffer.
CommandQueued(queue, buffer, key) ==
    Append(Append(queue \o Encode(buffer), ConvertTokensToIds(KEY_ENTER_TOKEN)),
           ConvertTokensToIds(key))

\* Lines 130-134: a command key with text in the buffer.
ExampleCommandFlush(key) ==
    /\ state = "EXAMPLE" /\ pc = "loop"
    /\ Len(queued_actions) = 0
    /\ key \in COMMAND_TOKENS /\ key # KEY_CTRL_RIGHT_TOKEN
    /\ Len(insert_queue) > 0
    /\ Room(Len(Encode(insert_queue)) + 2)
    /\ queued_actions' = CommandQueued(queued_actions, insert_queue, key)
    /\ insert_queue' = <<>>
    /\ render_queued' = FALSE
    /\ plain' = FALSE
    /\ pending' = [set |-> TRUE, text |-> insert_queue, key |-> key, base |-> Len(applied)]
    /\ generated' = generated \o CommandQueued(queued_actions, insert_queue, key)
    /\ ex_key' = key
    /\ UNCHANGED <<state, prev, pc, ctxVars, typed, act_idx, max_gen_length, applied,
                   trainHist, modelHist, raceVars>>

\* Lines 137-139: a command key with an empty buffer.
ExampleCommand(key) ==
    /\ state = "EXAMPLE" /\ pc = "loop"
    /\ Len(queued_actions) = 0
    /\ key \in COMMAND_TOKENS /\ key # KEY_CTRL_RIGHT_TOKEN
    /\ Len(insert_queue) = 0
    /\ Room(1)
    /\ EnvEnactAll(<<ConvertTokensToIds(key)>>, CommandSource)
    /\ render_queued' = FALSE
    /\ plain' = FALSE
    /\ pending' = NoPending
    /\ generated' = Append(generated, ConvertTokensToIds(key))
    /\ ex_key' = key
    /\ UNCHANGED <<state, prev, pc, insert_queue, queued_actions, typed, act_idx,
                   max_gen_length, trainHist, modelHist, raceVars>>

ExampleStep ==
    \/ ExampleEnter
    \/ ExamplePop
    \/ ExampleEscape
    \/ ExampleResize
    \/ ExampleCtrlRight
    \/ \E key \in TextKeys : ExampleText(key)
    \/ \E key \in CommandKeys : ExampleCommandFlush(key)
    \/ \E key \in CommandKeys : ExampleCommand(key)

\* ------------------------------------------------------------------ AgentTurnState

\* cli.agent.eos_token: the end-of-turn marker.
eos_token == ConvertTokensToIds("EOS")

\* What cli.agent.get_action may return.
AgentActions == {eos_token, TextToken(<<"a">>), ConvertTokensToIds(KEY_ENTER_TOKEN)}

\* Line 257 with <= for <: one iteration too many.
LoopContinuesInclusive(idx, cap) == idx <= cap

\* Line 257: the loop condition.
LoopContinues(idx, cap) == idx < cap

\* Line 262: the test that ends the turn early.
IsEndOfTurn(action) == action = eos_token

\* Lines 254-256: the handler's set-up.
AgentTurnEnter ==
    /\ state = "AGENT_TURN" /\ pc = "entry"
    /\ act_idx' = 0
    /\ pc' = "loop"
    /\ applied' = <<>>
    /\ UNCHANGED <<state, prev, ctxVars, exampleVars, max_gen_length, trainHist, modelHist, raceVars>>

\* Lines 257-263: one iteration, ending the handler (line 265) when the agent
\* returned the end-of-turn marker.
AgentTurnIter(action) ==
    /\ state = "AGENT_TURN" /\ pc = "loop"
    /\ LoopContinues(act_idx, max_gen_length)
    /\ EnvEnactAll(<<action>>, TurnSource)
    /\ act_idx' = act_idx + 1
    /\ IF IsEndOfTurn(action)
       THEN state' = "MENU" /\ prev' = "AGENT_TURN" /\ pc' = "entry"
       ELSE UNCHANGED <<state, prev, pc>>
    /\ UNCHANGED <<exampleVars, max_gen_length, trainHist, modelHist, raceVars>>

\* Lines 257 and 265: the loop condition fails and the handler returns.
AgentTurnReturn ==
    /\ state = "AGENT_TURN" /\ pc = "loop"
    /\ ~LoopContinues(act_idx, max_gen_length)
    /\ state' = "MENU" /\ prev' = "AGENT_TURN" /\ pc' = "entry"
    /\ UNCHANGED <<ctxVars, exampleVars, act_idx, max_gen_length, applied, trainHist, modelHist, raceVars>>

AgentTurnStep ==
    \/ AgentTurnEnter
    \/ \E action \in AgentActions : AgentTurnIter(action)
    \/ AgentTurnReturn

\* ------------------------------------------------------------------ TrainState

\* cli.db.get_actions_since_action_id(id): the entries after id, in id order.
GetActionsSinceActionId(lg, id) == SelectSeq(lg, LAMBDA e : e.id > id)

\* Line 297: nothing to train on.
NothingToTrain(actions) == actions = <<>>

\* Line 307 with actions[0] for actions[-1]: the id of the first entry read.
NewTrainedStepFirst(actions) == actions[1].id

\* Line 307 with the number of entries read for the id of the last one.
NewTrainedStepCount(actions) == Len(actions)

\* Line 307 with the marker one short of the last entry read.
NewTrainedStepShort(actions) == actions[Len(actions)].id - 1

\* Line 307 with the newest id of the log for the id of the last entry read.
NewTrainedStepLatest(actions) == Last(log).id

\* Line 307: the checkpoint marker after training on actions.
NewTrainedStep(actions) == actions[Len(actions)].id

\* Line 304 with the live workspace kept as the baseline.
NewTrainedEnvLive(result, copy) == env

\* Line 304: the reference cli.last_trained_env holds after training, given
\* the workspace agent.train_on_actions returned and the deep copy of the
\* live workspace that line 308 makes.
NewTrainedEnv(result, copy) == result

\* Lines 301-308: training on the entries read. agent.train_on_actions replays
\* them against the baseline it is given, in place or on a workspace of its
\* own, and returns the replayed workspace.
TrainOn(actions) ==
    \E inplace \in BOOLEAN :
        LET snap   == last_trained_env
            held   == Referenced(env, snap, last_trained_env_state)
            result == IF inplace THEN snap ELSE Fresh(held)
            heap1  == [ws EXCEPT ![result] = ws[snap] \o Ids(actions)]
            copy   == Fresh(held \cup {result})
            heap2  == [heap1 EXCEPT ![copy] = heap1[env]]
            kept   == NewTrainedEnv(result, copy)
        IN  /\ last_trained_env' = kept
            /\ last_trained_step' = NewTrainedStep(actions)
            /\ last_trained_env_state' = copy
            /\ ws' = Collect(heap2, {env, kept, copy})
            /\ trained' = trained \o Ids(actions)
            /\ train_calls' = train_calls + 1
            /\ replayed' = result

\* Lines 276-308: the whole handler.
TrainHandle ==
    /\ state = "TRAIN" /\ pc = "entry"
    /\ LET actions == GetActionsSinceActionId(log, last_trained_step)
       IN  IF NothingToTrain(actions)
           THEN UNCHANGED <<last_trained_env, last_trained_env_state, last_trained_step,
                            ws, trained, train_calls, replayed>>
           ELSE TrainOn(actions)
    /\ log_at_train' = Len(log)
    /\ found' = ~NothingToTrain(GetActionsSinceActionId(log, last_trained_step))
    /\ state' = "MENU" /\ prev' = "TRAIN"
    /\ UNCHANGED <<pc, curr_reward, env, log, sessVars, exampleVars, act_idx,
                   max_gen_length, applied, key_read, modelHist, raceVars>>

\* Lines 296-298, for a log that may be written while training runs: the read
\* of the log, and the return when it found nothing.
TrainRead ==
    /\ state = "TRAIN" /\ pc = "entry"
    /\ LET actions == GetActionsSinceActionId(log, last_trained_step)
       IN  IF NothingToTrain(actions)
           THEN /\ state' = "MENU" /\ prev' = "TRAIN"
                /\ UNCHANGED <<pc, train_actions>>
           ELSE /\ train_actions' = actions
                /\ pc' = "replay"
                /\ UNCHANGED <<state, prev>>
    /\ log_at_train' = Len(log)
    /\ found' = ~NothingToTrain(GetActionsSinceActionId(log, last_trained_step))
    /\ UNCHANGED <<ctxVars, exampleVars, act_idx, max_gen_length, applied, trained,
                   train_calls, replayed, key_read, modelHist, late_id>>

\* Lines 301-308 and 280-286, after the read: training on the entries that
\* were read, and the return.
TrainReplay ==
    /\ state = "TRAIN" /\ pc = "replay"
    /\ TrainOn(train_actions)
    /\ train_actions' = <<>>
    /\ pc' = "entry"
    /\ state' = "MENU" /\ prev' = "TRAIN"
    /\ UNCHANGED <<curr_reward, env, log, sessVars, exampleVars, act_idx, max_gen_length,
                   applied, log_at_train, found, key_read, modelHist, late_id>>

\* An entry written to the action log from outside the session, at any moment.
AppendElsewhere ==
    /\ Room(1)
    /\ log' = LogAppendAll(log, <<TextToken(<<"b">>)>>, AI)
    /\ late_id' = IF state = "TRAIN" /\ pc = "replay" THEN NextId(log) ELSE late_id
    /\ UNCHANGED <<state, prev, pc, curr_reward, env, last_trained_env,
                   last_trained_env_state, last_trained_step, ws, sessVars, exampleVars,
                   act_idx, max_gen_length, applied, trainHist, modelHist, train_actions>>

\* ------------------------------------------------------------------ ResetSessionState

\* cli.reset_session(): a new workspace, the reward and the checkpoint state
\* zeroed, the log left as it is.
ResetSession ==
    LET fresh == Fresh(Referenced(env, last_trained_env, last_trained_env_state))
        copy  == Fresh(Referenced(env, last_trained_env, last_trained_env_state) \cup {fresh})
    IN  /\ env' = fresh
        /\ last_trained_env' = copy
        /\ last_trained_env_state' = 0
        /\ last_trained_step' = 0
        /\ ws' = Collect(ws, {})
        /\ curr_reward' = 0
        /\ instruction' = FALSE
        /\ insert_queue' = <<>>
        /\ UNCHANGED <<log, loaded_model_name, model_save_dir, eval_data_path, saved>>

\* Lines 435-442 without line 441: the reset is announced and not made.
ResetSessionHandleNoReset ==
    /\ state = "RESET_SESSION" /\ pc = "entry"
    /\ state' = "MENU" /\ prev' = "RESET_SESSION"
    /\ UNCHANGED <<pc, ctxVars, exampleVars, act_idx, max_gen_length, applied, trainHist, modelHist, raceVars>>

\* Lines 435-442: the whole handler.
ResetSessionHandle ==
    /\ state = "RESET_SESSION" /\ pc = "entry"
    /\ ResetSession
    /\ state' = "MENU" /\ prev' = "RESET_SESSION"
    /\ UNCHANGED <<pc, queued_actions, render_queued, typed, plain, pending, generated,
                   ex_key, act_idx,
                   max_gen_length, applied, trainHist, modelHist, raceVars>>

\* ------------------------------------------------------------------ ExitState

\* Lines 240-241 returning MenuState for None.
ExitHandleReturnsMenu ==
    /\ state = "EXIT" /\ pc = "entry"
    /\ state' = "MENU" /\ prev' = "EXIT"
    /\ UNCHANGED <<pc, ctxVars, exampleVars, act_idx, max_gen_length, applied, trainHist,
                   modelHist, raceVars>>

\* Lines 240-241: no successor.
ExitHandle ==
    /\ state = "EXIT" /\ pc = "entry"
    /\ state' = "NONE" /\ prev' = "EXIT"
    /\ UNCHANGED <<pc, ctxVars, exampleVars, act_idx, max_gen_length, applied, trainHist, modelHist, raceVars>>

\* ------------------------------------------------------------------ Prompt, AutoPrompt, AutoSolve

\* env.set_instruction(ids) followed by db.add_action(prompt, SET_INSTRUCTION, source).
SetInstruction(nonblank, source) ==
    LET lg == LogAppendAll(log, <<[kind |-> "instr", text |-> <<>>]>>, source)
    IN  /\ log' = lg
        /\ ws' = [ws EXCEPT ![env] = Append(@, Last(lg).id)]
        /\ instruction' = nonblank
        /\ UNCHANGED <<env, last_trained_env, last_trained_env_state, last_trained_step,
                       curr_reward, loaded_model_name, model_save_dir, eval_data_path, saved>>

\* Lines 27-39: the whole handler; the line read is blank or not.
PromptHandle(nonblank) ==
    /\ state = "PROMPT" /\ pc = "entry"
    /\ SetInstruction(nonblank, HUMAN)
    /\ state' = "MENU" /\ prev' = "PROMPT"
    /\ applied' = <<>>
    /\ UNCHANGED <<pc, exampleVars, act_idx, max_gen_length, trainHist, modelHist, raceVars>>

\* Lines 60-71: the whole handler; generate_problem returns a problem text.
AutoPromptHandle ==
    /\ state = "AUTO_PROMPT" /\ pc = "entry"
    /\ SetInstruction(TRUE, AI)
    /\ state' = "MENU" /\ prev' = "AUTO_PROMPT"
    /\ applied' = <<>>
    /\ UNCHANGED <<pc, exampleVars, act_idx, max_gen_length, trainHist, modelHist, raceVars>>

\* What get_actions_from_diff may return: edits that turn the code into the solution.
DiffActions ==
    {<<>>, <<TextToken(<<"a">>)>>, <<TextToken(<<"a">>), ConvertTokensToIds(KEY_ENTER_TOKEN)>>}

\* Lines 204-225: the whole handler.
AutoSolveHandle(actions) ==
    /\ state = "AUTO_SOLVE" /\ pc = "entry"
    /\ IF ~instruction
       THEN /\ applied' = <<>>
            /\ UNCHANGED ctxVars
       ELSE /\ Room(Len(actions))
            /\ applied' = <<>> \o Tagged(actions, AI)
            /\ log' = LogAppendAll(log, actions, AI)
            /\ ws' = [ws EXCEPT ![env] = @ \o Ids(SubSeq(log', Len(log) + 1, Len(log')))]
            /\ UNCHANGED <<env, last_trained_env, last_trained_env_state, last_trained_step,
                           curr_reward, sessVars>>
    /\ state' = "MENU" /\ prev' = "AUTO_SOLVE"
    /\ UNCHANGED <<pc, exampleVars, act_idx, max_gen_length, trainHist, modelHist, raceVars>>

\* ------------------------------------------------------------------ SaveModel, LoadModel, Eval

ModelNames == {"m1", "m2", "m3"}

\* What get_text_input returns: None on escape, else the entered name.
NameInputs == {"None", ""} \cup ModelNames

\* Lines 330 and 379 with the test of the configuration left out.
SaveDirNeverMissing(dir) == FALSE

\* Lines 330 and 379: `not cli.model_save_dir`.
SaveDirMissing(dir) == ~dir

\* Line 356 with the test of the entered name left out.
NameIsNeverEmpty(model_name) == FALSE

\* Line 356: `not model_name`, for the name get_text_input returned.
NameIsEmpty(model_name) == model_name = ""

\* Lines 325-370: the whole handler. agent.save either persists the model or
\* raises; line 363 stands in no try block, so the handler raises with it.
SaveModelHandle(model_name, save_ok) ==
    /\ state = "SAVE_MODEL" /\ pc = "entry"
    /\ IF SaveDirMissing(model_save_dir)
       THEN /\ state' = "MENU"
            /\ save_name' = "None" /\ save_raised' = FALSE
            /\ UNCHANGED <<loaded_model_name, saved>>
       ELSE /\ save_name' = model_name
            /\ IF model_name = "None"
               THEN state' = "MENU" /\ save_raised' = FALSE
                    /\ UNCHANGED <<loaded_model_name, saved>>
               ELSE IF NameIsEmpty(model_name)
               THEN state' = "SAVE_MODEL" /\ save_raised' = FALSE
                    /\ UNCHANGED <<loaded_model_name, saved>>
               ELSE IF ~save_ok
               THEN state' = "RAISED" /\ save_raised' = TRUE
                    /\ UNCHANGED <<loaded_model_name, saved>>
               ELSE /\ saved' = saved \cup {model_name}
                    /\ loaded_model_name' = model_name
                    /\ save_raised' = FALSE
                    /\ state' = "MENU"
    /\ prev' = "SAVE_MODEL"
    /\ UNCHANGED <<pc, curr_reward, env, last_trained_env, last_trained_env_state,
                   last_trained_step, ws, log, instruction, model_save_dir, eval_data_path,
                   exampleVars, act_idx, max_gen_length, applied, trainHist,
                   selection, load_fails, attempted, results, raceVars>>

\* The selections a list prompt may return from the listed entries: any of them,
\* each at most once, in any order.
Selections(files) ==
    {sel \in UNION {[1 .. n -> files] : n \in 0 .. Cardinality(files)} :
        \A i, j \in DOMAIN sel : sel[i] = sel[j] => i = j}

\* Lines 401-417 with `break` in place of `continue`: the first load that
\* raises ends the loop.
RECURSIVE LoadedAfterBreak(_, _, _, _)
LoadedAfterBreak(name, selected, fails, i) ==
    IF i > Len(selected) \/ i \in fails THEN name
    ELSE LoadedAfterBreak(selected[i], selected, fails, i + 1)

\* Lines 401-417: the remembered name after loading the selected models from
\* position i on, in order, those at the positions in fails raising in agent.load.
RECURSIVE LoadedAfter(_, _, _, _)
LoadedAfter(name, selected, fails, i) ==
    IF i > Len(selected) THEN name
    ELSE LoadedAfter(IF i \in fails THEN name ELSE selected[i], selected, fails, i + 1)

\* Lines 401-417: the names passed to agent.load from position i on, after calls;
\* line 409 is reached in every iteration, a load that raised is followed by
\* `continue`.
RECURSIVE AttemptsAfter(_, _, _, _)
AttemptsAfter(calls, selected, fails, i) ==
    IF i > Len(selected) THEN calls
    ELSE AttemptsAfter(Append(calls, selected[i]), selected, fails, i + 1)

\* Lines 377-428: the whole handler; fails holds the positions of the
\* selection whose load raises.
LoadModelHandle(selected, fails) ==
    /\ state = "LOAD_MODEL" /\ pc = "entry"
    /\ IF SaveDirMissing(model_save_dir) \/ saved = {}
       THEN /\ selection' = <<>> /\ load_fails' = {} /\ attempted' = <<>>
            /\ UNCHANGED loaded_model_name
       ELSE /\ selected \in Selections(saved)
            /\ fails \subseteq DOMAIN selected
            /\ selection' = selected
            /\ load_fails' = fails
            /\ attempted' = AttemptsAfter(<<>>, selected, fails, 1)
            /\ loaded_model_name' = LoadedAfter(loaded_model_name, selected, fails, 1)
    /\ state' = "MENU" /\ prev' = "LOAD_MODEL"
    /\ UNCHANGED <<pc, curr_reward, env, last_trained_env, last_trained_env_state,
                   last_trained_step, ws, log, instruction, model_save_dir, eval_data_path,
                   saved, exampleVars, act_idx, max_gen_length, applied, trainHist,
                   save_name, save_raised, results, raceVars>>

\* Lines 454-466: the path is not set, or nothing exists at it.
EvalPathInvalid(path) == path = "" \/ path = "missing"

\* Lines 469-472: the entries of the directory at the path.
EvalItems(path) == IF path = "dir" THEN {"e1", "e2"} ELSE {}

\* Lines 497-508: the results of the selected items, in order; an item at a
\* position in fails raises in run_agent_eval and keeps its error.
EvalResults(selected, fails) ==
    [i \in DOMAIN selected |-> [item |-> selected[i], error |-> i \in fails]]

\* Lines 449-525: the whole handler; it reads the configuration and the agent
\* and writes only to the screen.
EvalHandle(selected, fails) ==
    /\ state = "EVAL" /\ pc = "entry"
    /\ IF EvalPathInvalid(eval_data_path) \/ EvalItems(eval_data_path) = {}
       THEN results' = <<>>
       ELSE /\ selected \in Selections(EvalItems(eval_data_path))
            /\ fails \subseteq DOMAIN selected
            /\ results' = EvalResults(selected, fails)
    /\ state' = "MENU" /\ prev' = "EVAL"
    /\ UNCHANGED <<pc, ctxVars, exampleVars, act_idx, max_gen_length, applied, trainHist,
                   save_name, save_raised, selection, load_fails, attempted, raceVars>>

\* ------------------------------------------------------------------ MenuState

KEY_CTRL_P == "^p"

KEY_CTRL_E == "^e"

KEY_CTRL_C == "^c"

\* Lines 530-546: the dispatch table.
key_to_state ==
    [k \in {"p", KEY_CTRL_P, ",", "e", "t", "s", "l", "\n", "\r", KEY_CTRL_E, ".",
            ESC, KEY_CTRL_C, "r", "v"} |->
        CASE k = "p" -> "PROMPT"
          [] k \in {KEY_CTRL_P, ","} -> "AUTO_PROMPT"
          [] k = "e" -> "EXAMPLE"
          [] k = "t" -> "TRAIN"
          [] k = "s" -> "SAVE_MODEL"
          [] k = "l" -> "LOAD_MODEL"
          [] k \in {"\n", "\r"} -> "AGENT_TURN"
          [] k \in {KEY_CTRL_E, "."} -> "AUTO_SOLVE"
          [] k \in {ESC, KEY_CTRL_C} -> "EXIT"
          [] k = "r" -> "RESET_SESSION"
          [] k = "v" -> "EVAL"]

\* The keys stdscr.getkey may return in the menu: those of the table, the
\* reward keys and one key that is neither.
MenuKeys == DOMAIN key_to_state \cup {"+", "=", "-", "x"}

\* Lines 557-560 with `else` for `elif key in ('+', '=')`: every key that is
\* not '-' raises the reward.
RewardAfterAnyKey(reward, key) ==
    IF key = "-" THEN reward - 1 ELSE reward + 1

\* Lines 557-560 with '=' left out of the keys that raise the reward.
RewardAfterPlusOnly(reward, key) ==
    IF key = "+" THEN reward + 1
    ELSE IF key = "-" THEN reward - 1
    ELSE reward

\* Lines 557-560: the reward after a key that is not in the table.
RewardAfter(reward, key) ==
    IF key \in {"+", "="} THEN reward + 1
    ELSE IF key = "-" THEN reward - 1
    ELSE reward

\* A key is drawn while the reward and the log it leads to stay within the bounds.
Drawn(key) ==
    /\ key \in {"+", "="} => curr_reward < MaxReward
    /\ key = "-" => curr_reward > -MaxReward
    /\ key \in {"p", KEY_CTRL_P, ","} => Room(1)
    /\ key \in {"\n", "\r"} => Room(max_gen_length)
    /\ key = "t" => train_calls < MaxTrain

\* Lines 549-561: the whole handler.
MenuHandle(key) ==
    /\ state = "MENU" /\ pc = "entry"
    /\ Drawn(key)
    /\ IF key \in DOMAIN key_to_state
       THEN state' = key_to_state[key] /\ curr_reward' = curr_reward
       ELSE state' = "MENU" /\ curr_reward' = RewardAfter(curr_reward, key)
    /\ prev' = "MENU"
    /\ key_read' = key
    /\ UNCHANGED <<pc, env, last_trained_env, last_trained_env_state, last_trained_step,
                   ws, log, sessVars, exampleVars, act_idx, max_gen_length, applied,
                   trained, train_calls, replayed, log_at_train, found, modelHist, raceVars>>

\* ------------------------------------------------------------------ specifications

\* The controller loop: the current state's handler runs, a step at a time.
Next ==
    \/ \E key \in MenuKeys : MenuHandle(key)
    \/ ExampleStep
    \/ AgentTurnStep
    \/ TrainHandle
    \/ ResetSessionHandle
    \/ ExitHandle
    \/ \E nonblank \in BOOLEAN : PromptHandle(nonblank)
    \/ AutoPromptHandle
    \/ \E actions \in DiffActions : AutoSolveHandle(actions)
    \/ \E model_name \in NameInputs, save_ok \in BOOLEAN : SaveModelHandle(model_name, save_ok)
    \/ \E selected \in Selections(ModelNames) : \E fails \in SUBSET DOMAIN selected :
           LoadModelHandle(selected, fails)
    \/ \E selected \in Selections(EvalItems("dir")) : \E fails \in SUBSET DOMAIN selected :
           EvalHandle(selected, fails)

Spec == Init /\ [][Next]_vars

\* The configuration the component specifications below start from.
Configured == model_save_dir /\ eval_data_path = "dir"

\* The editing state alone: the menu's 'e' key and ExampleState's handler.
NextExample ==
    \/ MenuHandle("e")
    \/ ExampleStep

InitExample == Init /\ Configured /\ max_gen_length = 0

SpecExample == InitExample /\ [][NextExample]_vars

\* The agent's turns alone, for every iteration cap.
NextAgent ==
    \/ \E key \in {"\n", "\r"} : MenuHandle(key)
    \/ AgentTurnStep

InitAgent == Init /\ Configured

SpecAgent == InitAgent /\ [][NextAgent]_vars

\* The checkpoint tracker: entries appended by agent turns, and training.
NextTrain ==
    \/ \E key \in {"\n", "t"} : MenuHandle(key)
    \/ AgentTurnStep
    \/ TrainHandle

InitTrain == Init /\ Configured /\ max_gen_length > 0

SpecTrain == InitTrain /\ [][NextTrain]_vars

\* The session context: the menu with its reward keys, resets, agent turns
\* and prompts (a line that is not blank).
NextSession ==
    \/ \E key \in {"+", "=", "-", "x", "r", "\n", "p"} : MenuHandle(key)
    \/ ResetSessionHandle
    \/ AgentTurnStep
    \/ PromptHandle(TRUE)

InitSession == Init /\ Configured /\ max_gen_length = 1

SpecSession == InitSession /\ [][NextSession]_vars

\* The model states: the menu's 's', 'l' and 'v' keys and the handlers of
\* SaveModelState, LoadModelState and EvalState, from every configuration.
NextModels ==
    \/ \E key \in {"s", "l", "v"} : MenuHandle(key)
    \/ \E model_name \in NameInputs, save_ok \in BOOLEAN : SaveModelHandle(model_name, save_ok)
    \/ \E selected \in Selections(ModelNames) : \E fails \in SUBSET DOMAIN selected :
           LoadModelHandle(selected, fails)
    \/ \E selected \in Selections(EvalItems("dir")) : \E fails \in SUBSET DOMAIN selected :
           EvalHandle(selected, fails)

InitModels == Init /\ max_gen_length = 0

SpecModels == InitModels /\ [][NextModels]_vars

\* The controller loop from a configured session whose agent's turns take at
\* most one action.
InitControl == Init /\ Configured /\ max_gen_length = 1

\* SpecControl draws a key that leads to a state whose handler appends to the
\* log while the log is empty.
DrawnOnce(key) ==
    key \in {"p", KEY_CTRL_P, ",", "e", "\n", "\r", KEY_CTRL_E, "."} => log = <<>>

\* Every state's handler, each read of an input drawing one input of a kind.
NextControl ==
    \/ \E key \in DOMAIN key_to_state \cup {"x"} : DrawnOnce(key) /\ MenuHandle(key)
    \/ ExampleEnter
    \/ ExampleText("a")
    \/ ExampleEscape
    \/ AgentTurnStep
    \/ TrainHandle
    \/ ResetSessionHandle
    \/ ExitHandle
    \/ PromptHandle(TRUE)
    \/ AutoPromptHandle
    \/ AutoSolveHandle(<<TextToken(<<"a">>)>>)
    \/ \E model_name \in {"", "m1"}, save_ok \in BOOLEAN : SaveModelHandle(model_name, save_ok)
    \/ LoadModelHandle(<<"m1">>, {})
    \/ EvalHandle(<<"e1">>, {})

SpecControl == InitControl /\ [][NextControl]_vars

\* The checkpoint tracker with a log that is also written from elsewhere:
\* training reads the log in one step and replays what it read in a later one.
NextRace ==
    \/ \E key \in {"\n", "t"} : MenuHandle(key)
    \/ AgentTurnStep
    \/ TrainRead
    \/ TrainReplay
    \/ AppendElsewhere

InitRace == Init /\ Configured /\ max_gen_length = 1

SpecRace == InitRace /\ [][NextRace]_vars

\* The workspaces: editing activations that apply run commands to the live
\* one, trainings and resets.
NextAlias ==
    \/ \E key \in {"e", "t", "r"} : MenuHandle(key)
    \/ ExampleEnter
    \/ ExampleCommand("^r")
    \/ ExampleEscape
    \/ TrainHandle
    \/ ResetSessionHandle

InitAlias == Init /\ Configured /\ max_gen_length = 0

SpecAlias == InitAlias /\ [][NextAlias]_vars

\* The two sources of actions: editing activations and agent turns of at most
\* one action.
NextTags ==
    \/ \E key \in {"e", "\n"} : MenuHandle(key)
    \/ ExampleStep
    \/ AgentTurnStep

InitTags == Init /\ Configured /\ max_gen_length = 1

SpecTags == InitTags /\ [][NextTags]_vars

\* The menu with every key it may read, each state's handler given one input.
NextMenu ==
    \/ \E key \in MenuKeys : DrawnOnce(key) /\ MenuHandle(key)
    \/ ExampleEnter
    \/ ExampleEscape
    \/ AgentTurnStep
    \/ TrainHandle
    \/ ResetSessionHandle
    \/ ExitHandle
    \/ PromptHandle(TRUE)
    \/ AutoPromptHandle
    \/ AutoSolveHandle(<<TextToken(<<"a">>)>>)
    \/ SaveModelHandle("m1", TRUE)
    \/ LoadModelHandle(<<"m1">>, {})
    \/ EvalHandle(<<"e1">>, {})

InitMenu == Init /\ Configured /\ max_gen_length = 1

SpecMenu == InitMenu /\ [][NextMenu]_vars

\* ------------------------------------------------------------------ the editing state's claims

ENTER == ConvertTokensToIds(KEY_ENTER_TOKEN)

\* The editing handler has returned and no other handler has returned since.
ExampleReturned == prev = "EXAMPLE"

\* C1: when the editing state read only plain-text keys (at least one) and
\* then escape, the actions applied to the workspace are exactly the encoding
\* of the typed text followed by one commit action, in that order and once
\* each, the buffer is empty and the handler returned Menu.
C1_EscapeAppliesTextThenCommit ==
    (ExampleReturned /\ plain /\ typed # <<>>) =>
        /\ Actions(applied) = Append(Encode(typed), ENTER)
        /\ insert_queue = <<>>
        /\ state = "MENU"

\* What the code does in the case of C1: the encoding of the text is applied
\* and the commit action is left in the queue the handler drops.
C1_CommitLeftInQueue ==
    (ExampleReturned /\ plain /\ typed # <<>>) =>
        /\ Actions(applied) = Encode(typed)
        /\ queued_actions = <<ENTER>>
        /\ insert_queue = <<>>

\* C2: when the editing handler returns, whatever keys it read, the text
\* tokens applied to the workspace spell out every character typed, in the
\* order typed, and none is left in the buffer.
C2_NoTypedCharacterDropped ==
    ExampleReturned =>
        /\ Decode(Actions(applied)) = typed
        /\ insert_queue = <<>>
        /\ \A i \in 1 .. Len(applied) : applied[i].source = HUMAN

\* C2's case: text, command keys and an insert-text key were read, text was
\* flushed by a command key and more text by the final escape.
C2_Witness ==
    /\ ExampleReturned
    /\ ~plain
    /\ Len(typed) >= 3
    /\ \E i \in 1 .. Len(applied) : applied[i].action = ConvertTokensToIds("^r")
    /\ applied # <<>> /\ Last(applied).action.kind = "txt"

\* C3: after a command key arrived with text in the buffer, the actions
\* applied since then followed by those still queued are the encoding of that
\* text, one commit action and the command's action, in that order, and the
\* buffer is empty: the command is applied after all the text typed before it.
C3_CommandFlushOrder ==
    pending.set =>
        /\ Actions(SubSeq(applied, pending.base + 1, Len(applied))) \o queued_actions
               = Encode(pending.text) \o <<ENTER, ConvertTokensToIds(pending.key)>>
        /\ insert_queue = <<>>

\* C3's case: the flush of a two-character text by a command key has been
\* applied to the end.
C3_Witness ==
    /\ pending.set
    /\ Len(pending.text) >= 2
    /\ queued_actions = <<>>
    /\ Last(applied).action = ConvertTokensToIds(pending.key)

\* ------------------------------------------------------------------ the checkpoint tracker's claims

\* C4: the entries passed to the agent's training, over all train() calls
\* together, are the entries of the log from the first on, each once and in
\* sequence_id order, and when a train() returns every entry of the log has
\* been passed: none twice, none skipped.
C4_EachEntryTrainedOnce ==
    /\ Len(trained) <= Len(log)
    /\ trained = Ids(SubSeq(log, 1, Len(trained)))
    /\ \A i, j \in 1 .. Len(trained) : i < j => trained[i] < trained[j]
    /\ prev = "TRAIN" => Len(trained) = Len(log)

\* C4's case: two train() calls found entries, with appends before each.
C4_Witness ==
    /\ prev = "TRAIN"
    /\ train_calls >= 2
    /\ Len(trained) >= 3

\* C5: after a train() that found entries, the baseline the next train()
\* replays against is the deep copy of the live workspace made when training
\* completed: a workspace of its own, equal to the live one, and not the
\* workspace the replay returned.
C5_BaselineIsCopyOfLive ==
    (prev = "TRAIN" /\ found) =>
        /\ last_trained_env = last_trained_env_state
        /\ last_trained_env # replayed
        /\ last_trained_env # env
        /\ ws[last_trained_env] = ws[env]

\* C6: no step lowers the checkpoint marker, and a train() that trained
\* leaves it at the sequence_id of the last entry it passed to training.
C6_MarkerMonotonic ==
    [][/\ last_trained_step' >= last_trained_step
       /\ train_calls' # train_calls => last_trained_step' = Last(trained')]_vars

\* C6's case: the marker was advanced twice.
C6_Witness ==
    /\ train_calls >= 2
    /\ last_trained_step >= 3
    /\ last_trained_step = Last(trained)

\* C7: a train() that finds no entry after the marker, as a train() does
\* that follows another with no append in between, does not call the agent's
\* training and leaves the marker, the baseline and its content as they are.
C7_TrainWithoutNewEntriesIsNoop ==
    [][(/\ state = "TRAIN"
        /\ \/ GetActionsSinceActionId(log, last_trained_step) = <<>>
           \/ (prev = "MENU" /\ log_at_train = Len(log)))
       => /\ train_calls' = train_calls
          /\ trained' = trained
          /\ last_trained_step' = last_trained_step
          /\ last_trained_env' = last_trained_env
          /\ last_trained_env_state' = last_trained_env_state
          /\ ws' = ws]_vars

\* C7's case: a train() that trained on three entries was followed by one
\* that found none.
C7_Witness ==
    /\ prev = "TRAIN"
    /\ ~found
    /\ train_calls >= 1
    /\ last_trained_step >= 3
    /\ Len(log) = last_trained_step

\* ------------------------------------------------------------------ the agent turn's claim

\* C8: one agent turn applies at most max_gen_length actions, requests none
\* it does not apply, applies nothing after an end-of-turn marker, stops short
\* of the cap only on that marker, applies nothing when the cap is 0, and
\* returns Menu.
C8_AgentTurnBounded ==
    /\ (state = "AGENT_TURN" /\ pc = "loop") =>
           /\ Len(applied) <= max_gen_length
           /\ act_idx = Len(applied)
           /\ \A i \in 1 .. Len(applied) : applied[i].action # eos_token
    /\ prev = "AGENT_TURN" =>
           /\ state = "MENU"
           /\ Len(applied) <= max_gen_length
           /\ act_idx = Len(applied)
           /\ \A i \in 1 .. Len(applied) : applied[i].action = eos_token => i = Len(applied)
           /\ Len(applied) < max_gen_length =>
                  (applied # <<>> /\ Last(applied).action = eos_token)
           /\ \A i \in 1 .. Len(applied) : applied[i].source = AI

\* C8's case: the agent returned the end-of-turn marker at the second of
\* three allowed iterations.
C8_Witness ==
    /\ prev = "AGENT_TURN"
    /\ max_gen_length = 3
    /\ Len(applied) = 2
    /\ Last(applied).action = eos_token

\* ------------------------------------------------------------------ the session's claims

\* C9: a Menu handler that read '+' or '=' leaves the reward one higher, one
\* that read '-' leaves it one lower, and both return Menu.
C9_RewardStep ==
    [][(state = "MENU" /\ key_read' \in {"+", "=", "-"}) =>
           /\ state' = "MENU"
           /\ curr_reward' = curr_reward + (IF key_read' = "-" THEN -1 ELSE 1)]_vars

\* C9's case: '=' raised the reward to 2.
C9_Witness ==
    /\ prev = "MENU"
    /\ key_read = "="
    /\ curr_reward = 2

\* C10: the ResetSession handler returns Menu with the reward 0 and the log
\* as it was, and every step leaves the entries of the log in place and gives
\* an entry it appends a sequence_id greater than every id in the log so far.
C10_ResetKeepsLog ==
    [][/\ state = "RESET_SESSION" =>
              (state' = "MENU" /\ curr_reward' = 0 /\ log' = log)
       /\ Len(log') >= Len(log)
       /\ SubSeq(log', 1, Len(log)) = log
       /\ \A i \in Len(log) + 1 .. Len(log') : \A j \in 1 .. i - 1 : log'[j].id < log'[i].id]_vars

\* C10's case: an entry was appended to the fresh workspace after a reset
\* that followed two earlier entries.
C10_Witness ==
    /\ prev = "AGENT_TURN"
    /\ Len(ws[env]) = 1
    /\ Len(log) >= 3
    /\ Last(log).id = Last(ws[env])

\* ------------------------------------------------------------------ the model states' claims

\* C11: when LoadModel's handler loads a selection, it passes every selected
\* name to agent.load in the order selected, whichever of the loads raise, it
\* returns Menu, and the remembered name is then the name at the last position
\* whose load did not raise, or the name remembered before if every load raised.
C11_LoadAllInOrder ==
    [][(state = "LOAD_MODEL" /\ model_save_dir /\ saved # {}) =>
           /\ state' = "MENU"
           /\ attempted' = selection'
           /\ LET ok == DOMAIN selection' \ load_fails'
              IN  loaded_model_name' =
                      IF ok = {} THEN loaded_model_name
                      ELSE selection'[CHOOSE i \in ok : \A j \in ok : j <= i]]_vars

\* C11's case: three models were selected, the second load raised and the
\* third is the one remembered.
C11_Witness ==
    /\ prev = "LOAD_MODEL"
    /\ Len(selection) = 3
    /\ load_fails = {2}
    /\ attempted = selection
    /\ loaded_model_name = selection[3]

\* C12: when agent.save raises in SaveModel's handler, the handler leaves the
\* remembered name as it was and returns Menu.
C12_FailedSaveReturnsMenu ==
    [][(state = "SAVE_MODEL" /\ save_raised') =>
           /\ state' = "MENU"
           /\ loaded_model_name' = loaded_model_name]_vars

\* C13: with a save directory configured, SaveModel's handler given an empty
\* name persists nothing, keeps the remembered name and returns SaveModel;
\* given a cancelled prompt it persists nothing and returns Menu; given a name
\* that agent.save persists, the model is stored under that name in the
\* directory, the name is remembered and the handler returns Menu.
C13_SaveByName ==
    [][(state = "SAVE_MODEL" /\ model_save_dir) =>
           /\ save_name' = "" =>
                  /\ state' = "SAVE_MODEL"
                  /\ UNCHANGED <<saved, loaded_model_name>>
           /\ save_name' = "None" =>
                  /\ state' = "MENU"
                  /\ UNCHANGED <<saved, loaded_model_name>>
           /\ (save_name' \notin {"", "None"} /\ ~save_raised') =>
                  /\ state' = "MENU"
                  /\ saved' = saved \cup {save_name'}
                  /\ loaded_model_name' = save_name']_vars

\* C13's case: an empty name was entered after a model had been saved; the
\* handler is to run again and the saved name is still the one remembered.
C13_Witness ==
    /\ prev = "SAVE_MODEL"
    /\ state = "SAVE_MODEL"
    /\ save_name = ""
    /\ saved = {loaded_model_name}

\* C14: SaveModel's and LoadModel's handlers without a save directory, and
\* Eval's handler without an evaluation path or with a path at which nothing
\* exists, return Menu with the session context as it was, and call none of
\* agent.save, agent.load and run_agent_eval.
C14_MissingConfigReturnsMenu ==
    [][(\/ state \in {"SAVE_MODEL", "LOAD_MODEL"} /\ ~model_save_dir
        \/ state = "EVAL" /\ eval_data_path \in {"", "missing"}) =>
           /\ state' = "MENU"
           /\ UNCHANGED ctxVars
           /\ state = "SAVE_MODEL" => ~save_raised'
           /\ state = "LOAD_MODEL" => attempted' = <<>>
           /\ state = "EVAL" => results' = <<>>]_vars

\* C14's case: SaveModel's handler returned without a save directory, in a
\* session whose evaluation path does not exist either.
C14_Witness ==
    /\ prev = "SAVE_MODEL"
    /\ state = "MENU"
    /\ ~model_save_dir
    /\ eval_data_path = "missing"
    /\ saved = {}

\* ------------------------------------------------------------------ the controller's claims

\* C15: a handler that returns yields no successor exactly when it is Exit's;
\* Exit is entered only from Menu, on a key the dispatch table maps to it;
\* and the handler of a state other than Menu and Exit returns Menu, or, for
\* SaveModel given an empty name, SaveModel.
C15_OnlyExitEnds ==
    [][(pc' = "entry" /\ state' # "RAISED") =>
           /\ state' = "NONE" <=> state = "EXIT"
           /\ state' = "EXIT" => (state = "MENU" /\ key_read' \in {ESC, KEY_CTRL_C})
           /\ state \notin {"MENU", "EXIT"} =>
                  \/ state' = "MENU"
                  \/ state = "SAVE_MODEL" /\ state' = "SAVE_MODEL" /\ save_name' = ""]_vars

\* C15's case: Exit's handler ended the loop of a session in which a model
\* was saved and the log written.
C15_Witness ==
    /\ state = "NONE"
    /\ prev = "EXIT"
    /\ key_read \in {ESC, KEY_CTRL_C}
    /\ saved # {}
    /\ log # <<>>

\* ------------------------------------------------------------------ the editing queue's claims

\* C16: while the editing loop runs, the actions applied so far followed by
\* those still queued are the actions the activation produced, in the order
\* produced; and when the handler returns, the actions applied are all of
\* them: each reached the workspace once, in that order.
C16_QueueAppliedInOrder ==
    /\ (state = "EXAMPLE" /\ pc = "loop") => Actions(applied) \o queued_actions = generated
    /\ ExampleReturned => Actions(applied) = generated

\* C17 as the specification states it: the insert-text key, read with text in
\* the buffer, leaves the buffer as it is and neither queues nor applies an
\* action.
C17_InsertKeyKeepsBuffer ==
    [][(state = "EXAMPLE" /\ insert_queue # <<>> /\ ex_key' = KEY_CTRL_RIGHT_TOKEN) =>
           /\ insert_queue' = insert_queue
           /\ queued_actions' = queued_actions
           /\ applied' = applied]_vars

\* C17: the insert-text key flushes the buffer into the queue: after it is
\* read the queue holds the encoding of the buffer followed by one commit
\* action, the buffer is empty, and nothing has been applied to the workspace
\* or the log yet.
C17_InsertKeyQueuesFlush ==
    [][(state = "EXAMPLE" /\ ex_key' = KEY_CTRL_RIGHT_TOKEN) =>
           /\ queued_actions' = Append(Encode(insert_queue), ENTER)
           /\ insert_queue' = <<>>
           /\ applied' = applied
           /\ log' = log
           /\ ws' = ws]_vars

\* C17's case: the insert-text key was read with two characters typed, and
\* their flush is queued.
C17_Witness ==
    /\ state = "EXAMPLE"
    /\ ex_key = KEY_CTRL_RIGHT_TOKEN
    /\ Len(typed) = 2
    /\ insert_queue = <<>>
    /\ queued_actions = Append(Encode(typed), ENTER)

\* ------------------------------------------------------------------ the tracker's later claims

\* C18: with entries appended to the log at any moment, also between the read
\* of a training and its advance of the marker, the entries replayed so far
\* are at every moment the entries of the log up to the marker, each once and
\* in log order: an entry appended after the read lies beyond the marker when
\* that training ends, and is replayed once when the marker passes it.
C18_LateEntryNotLost ==
    /\ trained = Ids(SelectSeq(log, LAMBDA e : e.id <= last_trained_step))
    /\ late_id # 0 =>
           Cardinality({i \in DOMAIN trained : trained[i] = late_id})
               = IF late_id <= last_trained_step THEN 1 ELSE 0

\* C18's case: an entry was appended while a training ran, and a later
\* training has replayed it.
C18_Witness ==
    /\ prev = "TRAIN" /\ pc = "entry"
    /\ late_id # 0
    /\ train_calls >= 2
    /\ \E i \in DOMAIN trained : trained[i] = late_id

\* C19: in every state reached by editing, training and resetting, the
\* checkpoint snapshot and the live workspace are two objects, each with
\* contents of its own.
C19_SnapshotNotAliased ==
    /\ last_trained_env # env
    /\ {env, last_trained_env} \subseteq DOMAIN ws

\* C19's case: after a training and a reset, the live workspace has been
\* edited and the snapshot trained on again, and their contents differ.
C19_Witness ==
    /\ prev = "TRAIN"
    /\ train_calls >= 2
    /\ Len(log) > Len(ws[env])
    /\ ws[env] # <<>>
    /\ ws[last_trained_env] # ws[env]

\* ------------------------------------------------------------------ the sources' claims

\* C20: every action an editing activation has applied is tagged HUMAN, and
\* every action an agent's turn has applied is tagged AI, on the way to the
\* workspace and in the entry the log keeps of it.
C20_SourceTags ==
    LET logged == SubSeq(log, Len(log) - Len(applied) + 1, Len(log))
    IN  /\ ((state = "EXAMPLE" /\ pc = "loop") \/ prev = "EXAMPLE") =>
               /\ \A i \in DOMAIN applied : applied[i].source = HUMAN
               /\ \A i \in DOMAIN logged : logged[i].source = HUMAN
        /\ ((state = "AGENT_TURN" /\ pc = "loop") \/ prev = "AGENT_TURN") =>
               /\ \A i \in DOMAIN applied : applied[i].source = AI
               /\ \A i \in DOMAIN logged : logged[i].source = AI

\* C20's case: an editing activation that applied a queued flush of text and
\* then a further action has returned, in a session whose log holds an
\* agent's action too.
C20_Witness ==
    /\ prev = "EXAMPLE"
    /\ Len(applied) >= 3
    /\ applied[1].action.kind = "txt"
    /\ \E i \in DOMAIN log : log[i].source = AI
    /\ \E i \in DOMAIN log : log[i].source = HUMAN

\* ------------------------------------------------------------------ the menu's claims

\* C21: one run of Menu's handler changes no field of the session context
\* but the reward; on a key of the dispatch table it leaves the reward too
\* and returns the state the table maps the key to; on a key that is neither
\* in the table nor one of '+', '=', '-' it leaves the whole context and
\* returns Menu.
C21_MenuFrame ==
    [][state = "MENU" =>
           /\ UNCHANGED <<env, last_trained_env, last_trained_env_state, last_trained_step,
                          ws, log, sessVars>>
           /\ key_read' \in DOMAIN key_to_state =>
                  /\ curr_reward' = curr_reward
                  /\ state' = key_to_state[key_read']
           /\ key_read' \notin DOMAIN key_to_state \cup {"+", "=", "-"} =>
                  /\ UNCHANGED ctxVars
                  /\ state' = "MENU"]_vars

\* C21's case: a key outside the table and the reward keys was read in a
\* session with a reward, a log and a saved model.
C21_Witness ==
    /\ prev = "MENU"
    /\ state = "MENU"
    /\ key_read = "x"
    /\ curr_reward # 0
    /\ log # <<>>
    /\ saved # {}

====
